---------------------------- MODULE Spec2Model ----------------------------
(***************************************************************************)
(* BooksFlowAI backend (src/backend/main.py): a FastAPI application with   *)
(* one CORS middleware and one route, GET /health.                         *)
(*                                                                         *)
(* The module-level statements of main.py run once, at import; their       *)
(* result is the initial state.  Afterwards the process only serves        *)
(* requests, and its environment may be changed from outside.              *)
(*                                                                         *)
(* Encodings.                                                              *)
(*   - A dict (os.environ, request and response headers, a JSON body) is a *)
(*     function whose domain is the set of keys that are present.          *)
(*     Header names are lower-case, as the framework stores them.          *)
(*   - A URL path is the sequence of its tokens, "/" and "\n" being tokens *)
(*     of their own: /health is <<"/", "health">>, /health/ is             *)
(*     <<"/", "health", "/">>, and /health%0A (percent-decoded by the      *)
(*     server) is <<"/", "health", "\n">>.                                 *)
(*   - What FastAPI(...) and add_middleware(CORSMiddleware, ...) do with   *)
(*     the arguments main.py passes is the framework's documented          *)
(*     behaviour for those arguments; it is written out here because it is *)
(*     what the application does on the wire.                              *)
(***************************************************************************)
EXTENDS Integers, Sequences, FiniteSets, TLC

VARIABLES
    environ,          \* os.environ, restricted to the one variable read
    boot_environ,     \* os.environ as it was when main.py was imported
    origins,          \* the module-level list `origins`
    user_middleware,  \* the keyword arguments given to app.add_middleware
    routes,           \* app.router.routes, in registration order
    request,          \* the request handled last
    response,         \* the response sent last
    served,           \* number of requests handled so far
    health_log        \* status and body of every GET /health served, in order

vars == <<environ, boot_environ, origins, user_middleware, routes, request,
          response, served, health_log>>

(***************************************************************************)
(* Bounds of the model.                                                    *)
(***************************************************************************)
MaxRequests == 2

(***************************************************************************)
(* Dicts.                                                                  *)
(***************************************************************************)
EmptyDict == [k \in {} |-> ""]

Single(k, v) == [x \in {k} |-> v]

\* dict.update: the entries of g win
Update(f, g) ==
    [k \in (DOMAIN f) \cup (DOMAIN g) |-> IF k \in DOMAIN g THEN g[k] ELSE f[k]]

Range(s) == {s[i] : i \in DOMAIN s}

(***************************************************************************)
(* Startup: main.py lines 5-22.                                            *)
(***************************************************************************)
ENV_KEY == "NEXT_PUBLIC_APP_URL"

DEFAULT_ORIGIN == "http://localhost:3000"

\* The values the environment variable takes in the model: the empty
\* string, the wildcard, and a string that is no URL at all.
EnvValues == {"", "*", "not a url"}

EnvStates == {EmptyDict} \cup {Single(ENV_KEY, v) : v \in EnvValues}

\* A plausible bug: the configured value is never used
getenv_ignored(env, key, default) == default

\* os.getenv(key, default): the default is used only when the key is absent
getenv(env, key, default) ==
    IF key \in DOMAIN env THEN env[key] ELSE default

\* A plausible bug: an empty value is dropped from the list
OriginsDroppingEmpty(env) ==
    LET v == getenv(env, ENV_KEY, DEFAULT_ORIGIN)
    IN  IF v = "" THEN <<>> ELSE <<v>>

\* origins = [os.getenv("NEXT_PUBLIC_APP_URL", "http://localhost:3000")]
OriginsFromEnv(env) == <<getenv(env, ENV_KEY, DEFAULT_ORIGIN)>>

\* app.add_middleware(CORSMiddleware, allow_origins=origins, ...)
CorsOptions(allow_origins) ==
    [ allow_origins     |-> allow_origins,
      allow_credentials |-> TRUE,
      allow_methods     |-> <<"*">>,
      allow_headers     |-> <<"*">> ]

Route(path, methods, endpoint) ==
    [path |-> path, methods |-> methods, endpoint |-> endpoint]

\* FastAPI(title=..., version=...) with openapi_url, docs_url and redoc_url
\* left at their defaults registers the documentation routes.
FastAPI ==
    << Route(<<"/", "openapi.json">>, {"GET", "HEAD"}, "openapi"),
       Route(<<"/", "docs">>, {"GET", "HEAD"}, "swagger_ui_html"),
       Route(<<"/", "docs", "/", "oauth2-redirect">>, {"GET", "HEAD"},
             "swagger_ui_redirect"),
       Route(<<"/", "redoc">>, {"GET", "HEAD"}, "redoc_html") >>

\* @app.get("/health")
HealthRoute == Route(<<"/", "health">>, {"GET"}, "health")

(***************************************************************************)
(* Responses.                                                              *)
(***************************************************************************)
Response(status, body, headers) ==
    [status |-> status, body |-> body, headers |-> headers]

JSONResponse(content, status) ==
    Response(status, content, Single("content-type", "application/json"))

HTMLResponse(page) ==
    Response(200, [html |-> page],
             Single("content-type", "text/html; charset=utf-8"))

PlainTextResponse(text, status, headers) ==
    Response(status, [text |-> text],
             Update(headers,
                    Single("content-type", "text/plain; charset=utf-8")))

RECURSIVE JoinPath(_)
JoinPath(p) == IF p = <<>> THEN "" ELSE Head(p) \o JoinPath(Tail(p))

RedirectResponse(path) ==
    Response(307, [text |-> ""], Single("location", JoinPath(path)))

\* A plausible bug: the payload reports how many requests were served
health_counting == [status |-> "ok", served |-> served]

\* def health(): return {"status": "ok"}
health == [status |-> "ok"]

(***************************************************************************)
(* Routing: app.router, for the routes registered at lines 5 and 20.       *)
(***************************************************************************)
IsPrefix(s, t) == Len(s) <= Len(t) /\ SubSeq(t, 1, Len(s)) = s

\* A plausible bug: a route also answers for every path below its own
PathMatchesPrefix(route_path, path) == IsPrefix(route_path, path)

\* The route's pattern is "^" + path + "$", applied with re.match: "$"
\* matches at the end of the string and also just before a final newline.
PathMatches(route_path, path) ==
    \/ path = route_path
    \/ path = Append(route_path, "\n")

\* Route.matches
Match(route, req) ==
    IF ~PathMatches(route.path, req.path) THEN "NONE"
    ELSE IF req.method \notin route.methods THEN "PARTIAL"
    ELSE "FULL"

\* The function a route runs
Endpoint(name) ==
    CASE name = "health"  -> JSONResponse(health, 200)
      [] name = "openapi" ->
            JSONResponse([openapi |-> "3.1.0", title |-> "BooksFlowAI Backend",
                          version |-> "0.1.0"], 200)
      [] name = "swagger_ui_html"     -> HTMLResponse("swagger-ui")
      [] name = "swagger_ui_redirect" -> HTMLResponse("oauth2-redirect")
      [] name = "redoc_html"          -> HTMLResponse("redoc")

\* Route.handle: a route that matched the path but not the method
Handle(route, req) ==
    IF req.method \notin route.methods
    THEN JSONResponse([detail |-> "Method Not Allowed"], 405)
    ELSE Endpoint(route.endpoint)

\* The framework's answer when no route matches
not_found == JSONResponse([detail |-> "Not Found"], 404)

RECURSIVE RStripSlash(_)
RStripSlash(p) ==
    IF p # <<>> /\ p[Len(p)] = "/" THEN RStripSlash(SubSeq(p, 1, Len(p) - 1))
    ELSE p

\* The path the router tries when nothing matched (redirect_slashes)
ToggleSlash(p) ==
    IF p # <<>> /\ p[Len(p)] = "/" THEN RStripSlash(p) ELSE Append(p, "/")

Min(S) == CHOOSE i \in S : \A j \in S : i <= j

\* Router.app: the first full match, else the first partial match (405),
\* else a redirect to the path with the trailing slash toggled when that
\* path matches a route, else not found.
Router(rts, req) ==
    LET full    == {i \in DOMAIN rts : Match(rts[i], req) = "FULL"}
        partial == {i \in DOMAIN rts : Match(rts[i], req) = "PARTIAL"}
        other   == [req EXCEPT !.path = ToggleSlash(req.path)]
    IN  IF full # {} THEN Handle(rts[Min(full)], req)
        ELSE IF partial # {} THEN Handle(rts[Min(partial)], req)
        ELSE IF /\ req.path # <<"/">>
                /\ \E i \in DOMAIN rts : Match(rts[i], other) # "NONE"
             THEN RedirectResponse(other.path)
        ELSE not_found

(***************************************************************************)
(* The CORS middleware, as configured at lines 11-17.                      *)
(***************************************************************************)
\* What allow_methods=["*"] stands for
ALL_METHODS == <<"DELETE", "GET", "HEAD", "OPTIONS", "PATCH", "POST", "PUT">>

\* A plausible bug: allow_methods left at the middleware's default
allow_methods_default(options) == <<"GET">>

allow_methods(options) ==
    IF "*" \in Range(options.allow_methods) THEN ALL_METHODS
    ELSE options.allow_methods

allow_all_origins(options) == "*" \in Range(options.allow_origins)

allow_all_headers(options) == "*" \in Range(options.allow_headers)

preflight_explicit_allow_origin(options) ==
    ~allow_all_origins(options) \/ options.allow_credentials

RECURSIVE JoinComma(_)
JoinComma(s) ==
    IF s = <<>> THEN ""
    ELSE IF Len(s) = 1 THEN s[1]
    ELSE s[1] \o ", " \o JoinComma(Tail(s))

\* Headers added to every response to a request that carries an Origin
simple_headers(options) ==
    Update(IF allow_all_origins(options)
           THEN Single("access-control-allow-origin", "*") ELSE EmptyDict,
           IF options.allow_credentials
           THEN Single("access-control-allow-credentials", "true")
           ELSE EmptyDict)

\* Headers of every answer to a preflight
preflight_headers(options) ==
    Update(
      Update(IF preflight_explicit_allow_origin(options)
             THEN Single("vary", "Origin")
             ELSE Single("access-control-allow-origin", "*"),
             [k \in {"access-control-allow-methods", "access-control-max-age"}
                |-> IF k = "access-control-allow-methods"
                    THEN JoinComma(allow_methods(options)) ELSE "600"]),
      IF options.allow_credentials
      THEN Single("access-control-allow-credentials", "true") ELSE EmptyDict)

\* A plausible bug: the wildcard entry is compared like any other origin
is_allowed_origin_exact(options, origin) ==
    origin \in Range(options.allow_origins)

is_allowed_origin(options, origin) ==
    \/ allow_all_origins(options)
    \/ origin \in Range(options.allow_origins)

\* The answer to a preflight.  allow_headers is ["*"] (line 16), so the
\* requested headers are mirrored back and never cause a failure.
preflight_response(options, headers) ==
    LET requested_origin == headers["origin"]
        requested_method == headers["access-control-request-method"]
        origin_ok  == is_allowed_origin(options, requested_origin)
        method_ok  == requested_method \in Range(allow_methods(options))
        with_origin ==
            IF origin_ok /\ preflight_explicit_allow_origin(options)
            THEN Update(preflight_headers(options),
                        Single("access-control-allow-origin", requested_origin))
            ELSE preflight_headers(options)
        with_headers ==
            CASE allow_all_headers(options) ->
                IF "access-control-request-headers" \in DOMAIN headers
                THEN Update(with_origin,
                            Single("access-control-allow-headers",
                                   headers["access-control-request-headers"]))
                ELSE with_origin
        failures ==
            (IF origin_ok THEN <<>> ELSE <<"origin">>)
            \o (IF method_ok THEN <<>> ELSE <<"method">>)
    IN  IF failures # <<>>
        THEN PlainTextResponse("Disallowed CORS " \o JoinComma(failures), 400,
                               with_headers)
        ELSE PlainTextResponse("OK", 200, with_headers)

\* A plausible other design: a foreign origin is refused outright
simple_response_refusing(options, req, inner) ==
    IF is_allowed_origin(options, req.headers["origin"])
    THEN [inner EXCEPT !.headers =
             Update(Update(@, simple_headers(options)),
                    Single("access-control-allow-origin",
                           req.headers["origin"]))]
    ELSE PlainTextResponse("Disallowed CORS origin", 403, EmptyDict)

\* The answer to any other request with an Origin: the application's own
\* response, with the CORS headers added to it.
simple_response(options, req, inner) ==
    LET origin     == req.headers["origin"]
        has_cookie == "cookie" \in DOMAIN req.headers
        base       == Update(inner.headers, simple_headers(options))
        explicit   == Update(base,
                             [k \in {"access-control-allow-origin", "vary"}
                                |-> IF k = "vary" THEN "Origin" ELSE origin])
    IN  [inner EXCEPT !.headers =
            IF allow_all_origins(options) /\ has_cookie THEN explicit
            ELSE IF /\ ~allow_all_origins(options)
                    /\ is_allowed_origin(options, origin) THEN explicit
            ELSE base]

IsPreflight(req) ==
    /\ req.method = "OPTIONS"
    /\ "access-control-request-method" \in DOMAIN req.headers

\* A plausible bug: the policy is attached to the routes, so a path that
\* matches none of them is answered without it
CORSMiddlewarePerRoute(options, rts, req) ==
    IF \A i \in DOMAIN rts : Match(rts[i], req) = "NONE" THEN Router(rts, req)
    ELSE IF "origin" \notin DOMAIN req.headers THEN Router(rts, req)
    ELSE IF IsPreflight(req) THEN preflight_response(options, req.headers)
    ELSE simple_response(options, req, Router(rts, req))

\* CORSMiddleware.__call__, wrapped around the router
CORSMiddleware(options, rts, req) ==
    IF "origin" \notin DOMAIN req.headers THEN Router(rts, req)
    ELSE IF IsPreflight(req) THEN preflight_response(options, req.headers)
    ELSE simple_response(options, req, Router(rts, req))

\* The application as the server calls it
app(req) == CORSMiddleware(user_middleware, routes, req)

(***************************************************************************)
(* The requests of the model.                                              *)
(***************************************************************************)
Methods == {"GET", "POST", "OPTIONS"}

Paths ==
    { <<"/", "health">>, <<"/", "health", "/">>, <<"/", "health", "\n">>,
      <<"/", "docs">>, <<"/", "nope">> }

Optional(name, values) == {EmptyDict} \cup {Single(name, v) : v \in values}

OriginHeaders ==
    Optional("origin", {DEFAULT_ORIGIN, "not a url", "http://evil.example"})

\* The other headers a request carries: none, a cookie, or the headers of
\* a preflight (which a request that is no preflight may carry as well)
OtherHeaders ==
    { EmptyDict,
      Single("cookie", "session=1"),
      Update(Single("access-control-request-method", "PUT"),
             Single("access-control-request-headers", "x-custom, authorization")),
      Update(Single("access-control-request-method", "PROPFIND"),
             Single("access-control-request-headers", "x-custom, authorization")) }

MakeRequest(m, p, q, h) == [method |-> m, path |-> p, query |-> q, headers |-> h]

\* Every combination of method, path, Origin and other headers, and every
\* GET once more with a query string
Requests ==
    { MakeRequest(m, p, "", Update(o, h)) :
        m \in Methods, p \in Paths, o \in OriginHeaders, h \in OtherHeaders }
    \cup
    { MakeRequest("GET", p, "x=1", Update(o, h)) :
        p \in Paths, o \in OriginHeaders, h \in {EmptyDict, Single("cookie", "session=1")} }

NoRequest == [method |-> "", path |-> <<>>, query |-> "", headers |-> EmptyDict]

NoResponse == Response(0, [text |-> ""], EmptyDict)

IsHealthRequest(req) == req.method = "GET" /\ req.path = <<"/", "health">>

(***************************************************************************)
(* The state machine.                                                      *)
(***************************************************************************)
Init ==
    /\ environ \in EnvStates
    /\ boot_environ = environ
    /\ origins = OriginsFromEnv(environ)
    /\ user_middleware = CorsOptions(origins)
    /\ routes = Append(FastAPI, HealthRoute)
    /\ request = NoRequest
    /\ response = NoResponse
    /\ served = 0
    /\ health_log = <<>>

\* A plausible bug: the configuration is read again on every request
ServeReloading ==
    /\ served < MaxRequests
    /\ \E req \in Requests :
        /\ request' = req
        /\ response' = app(req)
        /\ health_log' =
              IF IsHealthRequest(req)
              THEN Append(health_log, [status |-> response'.status,
                                       body   |-> response'.body])
              ELSE health_log
    /\ served' = served + 1
    /\ origins' = OriginsFromEnv(environ)
    /\ user_middleware' = CorsOptions(origins')
    /\ UNCHANGED <<environ, boot_environ, routes>>

\* The server hands one request to the application and sends its response
Serve ==
    /\ served < MaxRequests
    /\ \E req \in Requests :
        /\ request' = req
        /\ response' = app(req)
        /\ health_log' =
              IF IsHealthRequest(req)
              THEN Append(health_log, [status |-> response'.status,
                                       body   |-> response'.body])
              ELSE health_log
    /\ served' = served + 1
    /\ UNCHANGED <<environ, boot_environ, origins, user_middleware, routes>>

\* The environment variable is set, changed or unset while the process runs
SetEnv ==
    /\ \E e \in EnvStates : e # environ /\ environ' = e
    /\ UNCHANGED <<boot_environ, origins, user_middleware, routes, request,
                   response, served, health_log>>

Next == Serve \/ SetEnv

Spec == Init /\ [][Next]_vars

(***************************************************************************)
(* Vocabulary of the properties.                                           *)
(***************************************************************************)
HasOrigin(req) == "origin" \in DOMAIN req.headers

\* The response carries an allow-origin header that matches origin o
Grants(resp, o) ==
    /\ "access-control-allow-origin" \in DOMAIN resp.headers
    /\ resp.headers["access-control-allow-origin"] \in {o, "*"}

CORS_HEADERS ==
    { "access-control-allow-origin", "access-control-allow-credentials",
      "access-control-allow-methods", "access-control-allow-headers",
      "access-control-max-age" }

\* What the policy decided about a request, as its response shows it: the
\* CORS headers, and whether the policy layer itself refused the request
Decision(req, resp) ==
    [ headers |-> [k \in CORS_HEADERS \cap DOMAIN resp.headers |-> resp.headers[k]],
      refused |-> HasOrigin(req) /\ IsPreflight(req) /\ resp.status = 400 ]

HealthPayload == [status |-> "ok"]

HealthPath == <<"/", "health">>

BootValueSet == ENV_KEY \in DOMAIN boot_environ

(***************************************************************************)
(* C1.  When NEXT_PUBLIC_APP_URL is unset or empty at startup, the         *)
(* allowed-origin list is exactly ["http://localhost:3000"].               *)
(* The code does not do this for the empty string: os.getenv falls back    *)
(* only when the variable is absent.                                       *)
(***************************************************************************)
C1_UnsetOrEmptyGivesDefault ==
    (~BootValueSet \/ boot_environ[ENV_KEY] = "")
        => origins = <<DEFAULT_ORIGIN>>

(***************************************************************************)
(* C2.  For every non-empty string V set as NEXT_PUBLIC_APP_URL at         *)
(* startup, whatever it looks like, the allowed-origin list is [V].        *)
(***************************************************************************)
C2_SetValueIsTheOnlyOrigin ==
    (BootValueSet /\ boot_environ[ENV_KEY] # "")
        => origins = <<boot_environ[ENV_KEY]>>

C2_Witness ==
    /\ BootValueSet
    /\ boot_environ[ENV_KEY] = "not a url"
    /\ origins = <<"not a url">>
    /\ served > 0

(***************************************************************************)
(* C3.  Every GET /health is answered 200 with the body {"status": "ok"},  *)
(* whatever the configuration, the query string and the headers, an Origin *)
(* header that the policy does not allow included.                         *)
(***************************************************************************)
C3_HealthAlwaysOk ==
    IsHealthRequest(request)
        => response.status = 200 /\ response.body = HealthPayload

C3_Witness ==
    /\ IsHealthRequest(request)
    /\ request.query = "x=1"
    /\ HasOrigin(request)
    /\ request.headers["origin"] \notin Range(origins)
    /\ "*" \notin Range(origins)
    /\ BootValueSet
    /\ response.status = 200

(***************************************************************************)
(* C4, as claimed.  A request with origin O gets an allow-origin header    *)
(* matching O if and only if O is an element of the allowed-origin list.   *)
(***************************************************************************)
C4_GrantedIffListed ==
    (served > 0 /\ HasOrigin(request))
        => (Grants(response, request.headers["origin"])
              <=> request.headers["origin"] \in Range(origins))

(***************************************************************************)
(* C4, amended.  A request with origin O gets an allow-origin header       *)
(* matching O if and only if O is an element of the allowed-origin list or *)
(* the list holds the wildcard "*"; a preflight from any other origin is   *)
(* answered 400.                                                           *)
(***************************************************************************)
C4_GrantedIffListedOrWildcard ==
    (served > 0 /\ HasOrigin(request))
        => LET o       == request.headers["origin"]
               allowed == o \in Range(origins) \/ "*" \in Range(origins)
           IN  /\ Grants(response, o) <=> allowed
               /\ (IsPreflight(request) /\ ~allowed) => response.status = 400

C4_Witness ==
    /\ HasOrigin(request)
    /\ IsPreflight(request)
    /\ origins = <<"*">>
    /\ request.headers["origin"] = "http://evil.example"
    /\ response.headers["access-control-allow-origin"] = "http://evil.example"

(***************************************************************************)
(* C5, as claimed.  For an origin in the allowed-origin list, credentials  *)
(* are permitted and a preflight is accepted whatever method and headers   *)
(* it asks for.                                                            *)
(***************************************************************************)
C5_AnyMethodAccepted ==
    (served > 0 /\ HasOrigin(request)
        /\ request.headers["origin"] \in Range(origins))
        => /\ "access-control-allow-credentials" \in DOMAIN response.headers
           /\ response.headers["access-control-allow-credentials"] = "true"
           /\ IsPreflight(request) => response.status = 200

(***************************************************************************)
(* C5, amended.  For an origin in the allowed-origin list, credentials are *)
(* permitted, and a preflight is accepted, whatever headers it asks for,   *)
(* exactly when the method it asks for is one of DELETE, GET, HEAD,        *)
(* OPTIONS, PATCH, POST and PUT; the headers asked for are granted as      *)
(* asked.                                                                  *)
(***************************************************************************)
C5_StandardMethodsAccepted ==
    (served > 0 /\ HasOrigin(request)
        /\ request.headers["origin"] \in Range(origins))
        => /\ "access-control-allow-credentials" \in DOMAIN response.headers
           /\ response.headers["access-control-allow-credentials"] = "true"
           /\ IsPreflight(request) =>
                /\ response.status = 200 <=>
                      request.headers["access-control-request-method"]
                          \in {"DELETE", "GET", "HEAD", "OPTIONS", "PATCH",
                               "POST", "PUT"}
                /\ "access-control-request-headers" \in DOMAIN request.headers
                      => /\ "access-control-allow-headers"
                                \in DOMAIN response.headers
                         /\ response.headers["access-control-allow-headers"]
                              = request.headers["access-control-request-headers"]

C5_Witness ==
    /\ HasOrigin(request)
    /\ IsPreflight(request)
    /\ request.headers["origin"] \in Range(origins)
    /\ request.headers["access-control-request-method"] = "PUT"
    /\ "access-control-request-headers" \in DOMAIN request.headers
    /\ response.status = 200

(***************************************************************************)
(* C6.  The allowed-origin list and the installed policy never change      *)
(* after startup: no request and no later change of the environment        *)
(* variable alters them.                                                   *)
(***************************************************************************)
C6_ConfigurationFrozen ==
    [][origins' = origins /\ user_middleware' = user_middleware]_vars

C6_Witness ==
    /\ served > 0
    /\ environ # boot_environ
    /\ origins = OriginsFromEnv(boot_environ)
    /\ origins # OriginsFromEnv(environ)
    /\ user_middleware.allow_origins = origins

(***************************************************************************)
(* C7.  The allowed-origin list is never empty.                            *)
(***************************************************************************)
C7_OriginsNonEmpty == Len(origins) >= 1

C7_Witness ==
    /\ BootValueSet
    /\ boot_environ[ENV_KEY] = ""
    /\ Len(origins) = 1
    /\ served > 0

(***************************************************************************)
(* C8.  GET /health is idempotent and free of side effects: every call     *)
(* returns what the first call returned, and the environment, the          *)
(* allowed-origin list, the installed policy and the routes are after the  *)
(* call what they were before it.                                          *)
(***************************************************************************)
C8_HealthIdempotent ==
    [][(served' = served + 1 /\ IsHealthRequest(request'))
        => /\ health_log' # <<>>
           /\ response'.status = health_log'[1].status
           /\ response'.body = health_log'[1].body
           /\ UNCHANGED <<environ, origins, user_middleware, routes>>]_vars

C8_Witness ==
    /\ Len(health_log) >= 2
    /\ IsHealthRequest(request)
    /\ health_log[Len(health_log)] = health_log[1]

(***************************************************************************)
(* C9, as claimed.  A request to any path other than /health is answered   *)
(* with the default not-found response, and the health payload is never    *)
(* returned for another path.                                              *)
(***************************************************************************)
C9_OnlyHealthIsServed ==
    (served > 0 /\ request.path # HealthPath)
        => /\ response.status = 404
           /\ response.body # HealthPayload

(***************************************************************************)
(* C9, amended.  A request that is not a CORS preflight and whose path,    *)
(* trailing slashes removed, is neither the path of a registered route     *)
(* (/health and the documentation routes /openapi.json, /docs,             *)
(* /docs/oauth2-redirect and /redoc) nor such a path followed by a line    *)
(* feed, is answered with the default not-found response; the health       *)
(* payload is returned only to a GET of /health or of /health followed by  *)
(* a line feed.                                                            *)
(***************************************************************************)
C9_UnroutedPathsNotFound ==
    served > 0 =>
        LET routed == {routes[i].path : i \in DOMAIN routes}
            stem   == RStripSlash(request.path)
        IN  /\ ( /\ ~(HasOrigin(request) /\ IsPreflight(request))
                 /\ stem \notin routed
                 /\ stem \notin {Append(p, "\n") : p \in routed} )
                  => /\ response.status = 404
                     /\ response.body = [detail |-> "Not Found"]
            /\ response.body = HealthPayload
                  => /\ request.method = "GET"
                     /\ request.path \in {HealthPath, Append(HealthPath, "\n")}

C9_Witness ==
    /\ served > 0
    /\ request.path = <<"/", "nope">>
    /\ request.method = "GET"
    /\ HasOrigin(request)
    /\ response.status = 404

(***************************************************************************)
(* C10.  The policy does not depend on the path: the request handled,      *)
(* sent to any other path with the same method and headers, gets the same  *)
(* CORS headers and the same allow-or-refuse answer from the policy.       *)
(***************************************************************************)
C10_PolicyIgnoresPath ==
    served > 0 =>
        \A p \in Paths :
            LET other == [request EXCEPT !.path = p]
            IN  Decision(other, app(other)) = Decision(request, response)

C10_Witness ==
    /\ served > 0
    /\ request.path = <<"/", "nope">>
    /\ HasOrigin(request)
    /\ request.headers["origin"] \in Range(origins)
    /\ response.status = 404
    /\ response.headers["access-control-allow-origin"] = request.headers["origin"]

=============================================================================
